---- MODULE Spec2Model ----
(***************************************************************************)
(* Model of the rule-driven data-quality evaluation of dq_app.py:          *)
(* normalize_missing and AnalysisWorker.run (load, emptiness check,        *)
(* normalisation, the seven metrics, grading, preview, notes, emission).   *)
(*                                                                         *)
(* Text is a sequence of one-character strings, so that stripping, the     *)
(* sentinel comparison, the two regular expressions and date parsing are   *)
(* computed and not assumed.  Scores are exact rationals [n, d] in lowest  *)
(* terms (binary floating-point rounding is not modelled).  Row indices    *)
(* are the 0-based RangeIndex of the loaded frame.                         *)
(***************************************************************************)
EXTENDS Integers, Sequences, FiniteSets, TLC

VARIABLES file, rules, pc, attempts, df, m, now, judged, emitted, prev

vars == <<file, rules, pc, attempts, df, m, now, judged, emitted, prev>>

(***************************************************************************)
(* Bounds of the explored inputs.                                          *)
(***************************************************************************)
MaxRows == 2

MaxRowsPair == 1

\* rows of the tables of the freshness specification
MaxRowsFresh == 2

\* rows beyond PREVIEW_ROWS in the longest table of the preview specification
MaxRowsOverPreview == 2

(***************************************************************************)
(* Program constants.                                                      *)
(***************************************************************************)
PREVIEW_ROWS == 50

ADVISORY_FLOOR == 95

PK_UNSET_SCORE == 70

DECAY_PER_DAY == 5

None == "None"

(***************************************************************************)
(* Characters and text.                                                    *)
(***************************************************************************)
Digit == {"0", "1", "2", "3", "4", "5", "6", "7", "8", "9"}

Letter ==
    { "a", "b", "c", "d", "e", "f", "g", "h", "i", "j", "k", "l", "m", "n", "o", "p",
      "q", "r", "s", "t", "u", "v", "w", "x", "y", "z", "A", "B", "C", "D", "E", "F",
      "G", "H", "I", "J", "K", "L", "M", "N", "O", "P", "Q", "R", "S", "T", "U", "V",
      "W", "X", "Y", "Z" }

IsSpace(c) == c \in {" ", "\t"}

IsWord(c) == c \in Digit \cup Letter \cup {"_"}

IsWordDotDash(c) == IsWord(c) \/ c \in {".", "-"}

DigitVal(c) == CHOOSE v \in 0..9 : <<"0", "1", "2", "3", "4", "5", "6", "7", "8", "9">>[v + 1] = c

RECURSIVE LStrip(_)
LStrip(s) == IF s # <<>> /\ IsSpace(Head(s)) THEN LStrip(Tail(s)) ELSE s

RECURSIVE RStrip(_)
RStrip(s) ==
    IF s # <<>> /\ IsSpace(s[Len(s)]) THEN RStrip(SubSeq(s, 1, Len(s) - 1)) ELSE s

\* str.strip()
Strip(s) == RStrip(LStrip(s))

RECURSIVE NatToText(_)
NatToText(v) ==
    IF v < 10 THEN <<<<"0", "1", "2", "3", "4", "5", "6", "7", "8", "9">>[v + 1]>>
    ELSE NatToText(v \div 10) \o NatToText(v % 10)

(***************************************************************************)
(* Cells, tables.  A cell is absent (NaN / NaT), a text or a float.        *)
(***************************************************************************)
NaN == [k |-> "nan", s |-> <<>>, v |-> 0]

Txt(s) == [k |-> "str", s |-> s, v |-> 0]

Num(v) == [k |-> "num", s |-> <<>>, v |-> v]

isnull(cell) == cell.k = "nan"

\* Series.astype(str) on one cell: NaN becomes the text "nan", a float 5.0 the text "5.0"
AsTypeStr(cell) ==
    CASE cell.k = "nan" -> <<"n", "a", "n">>
      [] cell.k = "str" -> cell.s
      [] cell.k = "num" -> NatToText(cell.v) \o <<".", "0">>

NoDf == [cols |-> <<>>, dtype |-> <<>>, rows |-> <<>>]

RowCount(d) == Len(d.rows)

ColCount(d) == Len(d.cols)

Index(d) == 0..(RowCount(d) - 1)

HasCol(d, c) == \E i \in 1..ColCount(d) : d.cols[i] = c

ColIdx(d, c) == CHOOSE i \in 1..ColCount(d) : d.cols[i] = c

\* df[c] at row label r
At(d, r, c) == d.rows[r + 1][ColIdx(d, c)]

(***************************************************************************)
(* normalize_missing                                                       *)
(***************************************************************************)
_MISSING_LIKE ==
    { <<>>, <<" ">>, <<" ", " ">>, <<"n", "a", "n">>, <<"N", "a", "N">>,
      <<"N", "U", "L", "L">>, <<"n", "u", "l", "l">>, <<"N", "/", "A">>,
      <<"n", "/", "a">>, <<"N", "A">>, <<"n", "a">>, <<"-">>, <<"-", "-">> }

\* s.replace(list(_MISSING_LIKE), np.nan) on one stripped text
ReplaceMissing(s) == IF s \in _MISSING_LIKE THEN NaN ELSE Txt(s)

\* variant: the strip() of line 50 is skipped
NormalizeCellNoStrip(cell, dtype) ==
    IF dtype = "object" THEN ReplaceMissing(AsTypeStr(cell)) ELSE cell

NormalizeCell(cell, dtype) ==
    IF dtype = "object" THEN ReplaceMissing(Strip(AsTypeStr(cell))) ELSE cell

normalize_missing(d) ==
    [d EXCEPT !.rows =
        [r \in 1..Len(d.rows) |->
            [c \in 1..Len(d.cols) |-> NormalizeCell(d.rows[r][c], d.dtype[c])]]]

(***************************************************************************)
(* Exact rationals for the scores.                                         *)
(***************************************************************************)
RECURSIVE GCD(_, _)
GCD(a, b) == IF b = 0 THEN a ELSE GCD(b, a % b)

Abs(i) == IF i < 0 THEN -i ELSE i

\* n / d with d > 0, in lowest terms
Q(n, d) == LET g == GCD(Abs(n), d) IN [n |-> n \div g, d |-> d \div g]

QInt(k) == [n |-> k, d |-> 1]

QAdd(a, b) == Q(a.n * b.d + b.n * a.d, a.d * b.d)

QSub(a, b) == Q(a.n * b.d - b.n * a.d, a.d * b.d)

QMulInt(a, k) == Q(a.n * k, a.d)

QDivInt(a, k) == Q(a.n, a.d * k)

QLt(a, b) == a.n * b.d < b.n * a.d

QLe(a, b) == a.n * b.d <= b.n * a.d

QMax(a, b) == IF QLt(a, b) THEN b ELSE a

QMin(a, b) == IF QLt(b, a) THEN b ELSE a

RECURSIVE QSum(_)
QSum(qs) == IF qs = <<>> THEN QInt(0) ELSE QAdd(Head(qs), QSum(Tail(qs)))

\* np.mean over a non-empty list
QMean(qs) == QDivInt(QSum(qs), Len(qs))

\* round(x, 2) and the ":.2f" format: x in hundredths, ties to even
Round2(q) ==
    LET f == (q.n * 100) \div q.d
        rem == (q.n * 100) % q.d
    IN  IF 2 * rem > q.d THEN f + 1
        ELSE IF 2 * rem = q.d THEN f + (f % 2)
        ELSE f

(***************************************************************************)
(* The two format patterns, as re.match applies them.                      *)
(***************************************************************************)
\* r'^[\w\.-]+@[\w\.-]+\.\w+$'
EmailMatch(s) ==
    \E i \in 2..Len(s) : \E j \in (i + 2)..(Len(s) - 1) :
        /\ s[i] = "@"
        /\ s[j] = "."
        /\ \A k \in 1..(i - 1) : IsWordDotDash(s[k])
        /\ \A k \in (i + 1)..(j - 1) : IsWordDotDash(s[k])
        /\ \A k \in (j + 1)..Len(s) : IsWord(s[k])

\* r'^\d{2,3}[- .]?\d{3,4}[- .]?\d{4}$'
PhoneMatch(s) ==
    \E p \in {2, 3} : \E s1 \in {0, 1} : \E b \in {3, 4} : \E s2 \in {0, 1} :
        /\ Len(s) = p + s1 + b + s2 + 4
        /\ \A k \in 1..p : s[k] \in Digit
        /\ s1 = 1 => s[p + 1] \in {"-", " ", "."}
        /\ \A k \in (p + s1 + 1)..(p + s1 + b) : s[k] \in Digit
        /\ s2 = 1 => s[p + s1 + b + 1] \in {"-", " ", "."}
        /\ \A k \in (p + s1 + b + s2 + 1)..Len(s) : s[k] \in Digit

(***************************************************************************)
(* pd.to_datetime(..., errors="coerce") at day granularity: ISO dates      *)
(* YYYY-MM-DD parse to their day number since 1970-01-01, a float is       *)
(* nanoseconds since the epoch (day 0), anything else is NaT.              *)
(***************************************************************************)
NaT == [ok |-> FALSE, day |-> 0]

DaysFromCivil(y, mo, dd) ==
    LET yy == IF mo <= 2 THEN y - 1 ELSE y
        era == yy \div 400
        yoe == yy - era * 400
        mp == IF mo > 2 THEN mo - 3 ELSE mo + 9
        doy == (153 * mp + 2) \div 5 + dd - 1
        doe == yoe * 365 + yoe \div 4 - yoe \div 100 + doy
    IN  era * 146097 + doe - 719468

DaysInMonth(y, mo) ==
    IF mo = 2 THEN (IF y % 4 = 0 /\ (y % 100 # 0 \/ y % 400 = 0) THEN 29 ELSE 28)
    ELSE IF mo \in {4, 6, 9, 11} THEN 30 ELSE 31

ParseIso(s) ==
    IF /\ Len(s) = 10
       /\ s[5] = "-" /\ s[8] = "-"
       /\ \A k \in {1, 2, 3, 4, 6, 7, 9, 10} : s[k] \in Digit
    THEN LET y == 1000 * DigitVal(s[1]) + 100 * DigitVal(s[2]) + 10 * DigitVal(s[3]) + DigitVal(s[4])
             mo == 10 * DigitVal(s[6]) + DigitVal(s[7])
             dd == 10 * DigitVal(s[9]) + DigitVal(s[10])
         IN  IF mo \in 1..12 /\ dd >= 1 /\ dd <= DaysInMonth(y, mo)
             THEN [ok |-> TRUE, day |-> DaysFromCivil(y, mo, dd)]
             ELSE NaT
    ELSE NaT

to_datetime(cell) ==
    CASE cell.k = "nan" -> NaT
      [] cell.k = "str" -> ParseIso(cell.s)
      [] cell.k = "num" -> [ok |-> TRUE, day |-> 0]

(***************************************************************************)
(* AnalysisWorker.run: rule preparation and the schema check.              *)
(***************************************************************************)
Range(s) == {s[i] : i \in DOMAIN s}

\* Python truthiness of a column name: None and "" are false
Truthy(c) == c # None /\ c # ""

pk_col(r) == IF r.pk # <<>> THEN r.pk[1] ELSE None

freshness_days(r) == IF Truthy(r.timestamp_column) THEN r.freshness_days ELSE 0

\* set(required_cols + [pk_col] + [timestamp_col]) restricted to names not in df.columns
SchemaMissingSet(d, r) ==
    { c \in Range(r.required)
            \cup (IF Truthy(pk_col(r)) THEN {pk_col(r)} ELSE {})
            \cup (IF Truthy(r.timestamp_column) THEN {r.timestamp_column} ELSE {}) :
        Truthy(c) /\ ~HasCol(d, c) }

\* The orders in which iterating a set of str can yield its elements: the order
\* follows the per-process string hash seed.
Orderings(S) ==
    { o \in [1..Cardinality(S) -> S] : \A i, j \in 1..Cardinality(S) : o[i] = o[j] => i = j }

(***************************************************************************)
(* (1) value completeness                                                  *)
(***************************************************************************)
missing_cells(d) ==
    Cardinality({ rc \in (1..RowCount(d)) \X (1..ColCount(d)) : isnull(d.rows[rc[1]][rc[2]]) })

\* variant: the denominator counts rows, not cells
total_cells_rows_only(d) == RowCount(d)

total_cells(d) == RowCount(d) * ColCount(d)

score_val_comp(d) ==
    QMulInt(QSub(QInt(1), Q(missing_cells(d), total_cells(d))), 100)

(***************************************************************************)
(* (2) required completeness.  df[required_cols] raises KeyError when a    *)
(* listed column is not in the frame.                                      *)
(***************************************************************************)
RequiredKeyError(d, r) ==
    r.required # <<>> /\ \E c \in Range(r.required) : ~HasCol(d, c)

req_missing_mask(d, r, i) == \E c \in Range(r.required) : isnull(At(d, i, c))

\* variant: a missing rate equal to the threshold already hard-fails
RequiredPartAtThreshold(d, r) ==
    IF r.required # <<>> THEN
        LET idx == { i \in Index(d) : req_missing_mask(d, r, i) }
            pct == QMulInt(Q(Cardinality(idx), RowCount(d)), 100)
        IN  [ req_missing_pct |-> pct,
              req_missing_rows_idx |-> idx,
              score_req_comp |-> QMax(QInt(0), QSub(QInt(100), pct)),
              hard_fail_required |-> QLe(QInt(r.required_missing_threshold_pct), pct) ]
    ELSE
        [ req_missing_pct |-> QInt(0),
          req_missing_rows_idx |-> {},
          score_req_comp |-> QInt(100),
          hard_fail_required |-> FALSE ]

RequiredPart(d, r) ==
    IF r.required # <<>> THEN
        LET idx == { i \in Index(d) : req_missing_mask(d, r, i) }
            pct == QMulInt(Q(Cardinality(idx), RowCount(d)), 100)
        IN  [ req_missing_pct |-> pct,
              req_missing_rows_idx |-> idx,
              score_req_comp |-> QMax(QInt(0), QSub(QInt(100), pct)),
              hard_fail_required |-> QLt(QInt(r.required_missing_threshold_pct), pct) ]
    ELSE
        [ req_missing_pct |-> QInt(0),
          req_missing_rows_idx |-> {},
          score_req_comp |-> QInt(100),
          hard_fail_required |-> FALSE ]

(***************************************************************************)
(* (3) primary-key integrity                                               *)
(***************************************************************************)
\* variant: Series.duplicated() with its default keep='first' marks only the
\* later occurrences
duplicatedKeepFirst(d, c, i) == \E j \in Index(d) : j < i /\ At(d, j, c) = At(d, i, c)

\* Series.duplicated(keep=False): NaN equals NaN here, the caller masks nulls out
duplicated(d, c, i) == \E j \in Index(d) : j # i /\ At(d, j, c) = At(d, i, c)

\* variant: a table without a configured key is treated as a key failure
PkPartUnsetFails(d, r) ==
    IF Truthy(pk_col(r)) /\ HasCol(d, pk_col(r)) THEN
        LET c == pk_col(r)
            nulls == { i \in Index(d) : isnull(At(d, i, c)) }
            dups == { i \in Index(d) : duplicated(d, c, i) /\ ~isnull(At(d, i, c)) }
            bad == nulls \cup dups
        IN  [ pk_null_cnt |-> Cardinality(nulls),
              pk_dup_cnt |-> Cardinality(dups),
              pk_issue_idx |-> bad,
              score_pk |-> QMax(QInt(0),
                                QSub(QInt(100), QMulInt(Q(Cardinality(bad), RowCount(d)), 100))),
              hard_fail_pk |-> (Cardinality(nulls) > 0 \/ Cardinality(dups) > 0) ]
    ELSE
        [ pk_null_cnt |-> 0,
          pk_dup_cnt |-> 0,
          pk_issue_idx |-> {},
          score_pk |-> QInt(PK_UNSET_SCORE),
          hard_fail_pk |-> TRUE ]

PkPart(d, r) ==
    IF Truthy(pk_col(r)) /\ HasCol(d, pk_col(r)) THEN
        LET c == pk_col(r)
            nulls == { i \in Index(d) : isnull(At(d, i, c)) }
            dups == { i \in Index(d) : duplicated(d, c, i) /\ ~isnull(At(d, i, c)) }
            bad == nulls \cup dups
        IN  [ pk_null_cnt |-> Cardinality(nulls),
              pk_dup_cnt |-> Cardinality(dups),
              pk_issue_idx |-> bad,
              score_pk |-> QMax(QInt(0),
                                QSub(QInt(100), QMulInt(Q(Cardinality(bad), RowCount(d)), 100))),
              hard_fail_pk |-> (Cardinality(nulls) > 0 \/ Cardinality(dups) > 0) ]
    ELSE
        [ pk_null_cnt |-> 0,
          pk_dup_cnt |-> 0,
          pk_issue_idx |-> {},
          score_pk |-> QInt(PK_UNSET_SCORE),
          hard_fail_pk |-> FALSE ]

(***************************************************************************)
(* (4) format validity.  s = df[col].astype(str).fillna(""): astype(str)   *)
(* has already turned NaN into the text "nan", so fillna finds nothing.    *)
(***************************************************************************)
FormatText(d, c, i) == AsTypeStr(At(d, i, c))

non_empty(d, c, i) == Strip(FormatText(d, c, i)) # <<>>

\* s.str.match(pattern) for the pattern of the semantic label
Matches(label, s) == IF label = "email" THEN EmailMatch(s) ELSE PhoneMatch(s)

FormatValid(d, c, i, label) == Matches(label, FormatText(d, c, i)) /\ non_empty(d, c, i)

FormatColumn(d, c, label) ==
    LET valid_cnt == Cardinality({ i \in Index(d) : FormatValid(d, c, i, label) })
        denom == Cardinality({ i \in Index(d) : non_empty(d, c, i) })
    IN  [ score |-> IF denom # 0 THEN Q(valid_cnt, denom) ELSE QInt(1),
          idx |-> { i \in Index(d) : non_empty(d, c, i) /\ ~FormatValid(d, c, i, label) } ]

FormatUsed(d, c) == Truthy(c) /\ HasCol(d, c)

FormatPart(d, r) ==
    LET e == IF FormatUsed(d, r.formats.email)
             THEN <<FormatColumn(d, r.formats.email, "email")>> ELSE <<>>
        p == IF FormatUsed(d, r.formats.phone)
             THEN <<FormatColumn(d, r.formats.phone, "phone")>> ELSE <<>>
        blocks == e \o p
        fmt_scores == [k \in 1..Len(blocks) |-> blocks[k].score]
    IN  [ fmt_scores |-> fmt_scores,
          fmt_issue_idx |-> UNION { blocks[k].idx : k \in 1..Len(blocks) },
          score_format |-> IF fmt_scores # <<>> THEN QMulInt(QMean(fmt_scores), 100)
                           ELSE QInt(100) ]

(***************************************************************************)
(* (5) freshness                                                           *)
(***************************************************************************)
NoMsg == [kind |-> "", col |-> "", max_day |-> 0, allowed |-> 0, age |-> 0]

FreshnessChecked(d, r) ==
    Truthy(r.timestamp_column) /\ HasCol(d, r.timestamp_column) /\ freshness_days(r) > 0

ParsedDays(d, c) == { to_datetime(At(d, i, c)).day : i \in { j \in Index(d) : to_datetime(At(d, j, c)).ok } }

\* ts.max() is NaT when nothing parsed
MaxParses(d, c) == ParsedDays(d, c) # {}

max_ts(d, c) == CHOOSE x \in ParsedDays(d, c) : \A y \in ParsedDays(d, c) : y <= x

\* pd.Timestamp.now() is read only on this path
ReadsClock(d, r) == FreshnessChecked(d, r) /\ MaxParses(d, r.timestamp_column)

\* variant: data exactly freshness_days old already counts as stale
FreshPartStrictAge(d, r, nowDay) ==
    IF FreshnessChecked(d, r) THEN
        LET c == r.timestamp_column IN
        IF ~MaxParses(d, c) THEN
            [ score_fresh |-> QInt(0),
              hard_fail_fresh |-> TRUE,
              freshness_msg |-> [NoMsg EXCEPT !.kind = "unparseable", !.col = c],
              fresh_issue_idx |-> { i \in Index(d) : ~to_datetime(At(d, i, c)).ok } ]
        ELSE
            LET age_days == nowDay - max_ts(d, c)
                over == (age_days - freshness_days(r)) * DECAY_PER_DAY
            IN  IF age_days < freshness_days(r) THEN
                    [ score_fresh |-> QInt(100),
                      hard_fail_fresh |-> FALSE,
                      freshness_msg |-> NoMsg,
                      fresh_issue_idx |-> {} ]
                ELSE
                    [ score_fresh |-> QMax(QInt(0), QSub(QInt(100), QMin(QInt(100), QInt(over)))),
                      hard_fail_fresh |-> TRUE,
                      freshness_msg |-> [ kind |-> "stale", col |-> "", max_day |-> max_ts(d, c),
                                          allowed |-> freshness_days(r), age |-> age_days ],
                      fresh_issue_idx |-> {} ]
    ELSE
        [ score_fresh |-> QInt(100),
          hard_fail_fresh |-> FALSE,
          freshness_msg |-> NoMsg,
          fresh_issue_idx |-> {} ]

FreshPart(d, r, nowDay) ==
    IF FreshnessChecked(d, r) THEN
        LET c == r.timestamp_column IN
        IF ~MaxParses(d, c) THEN
            [ score_fresh |-> QInt(0),
              hard_fail_fresh |-> TRUE,
              freshness_msg |-> [NoMsg EXCEPT !.kind = "unparseable", !.col = c],
              fresh_issue_idx |-> { i \in Index(d) : ~to_datetime(At(d, i, c)).ok } ]
        ELSE
            LET age_days == nowDay - max_ts(d, c)
                over == (age_days - freshness_days(r)) * DECAY_PER_DAY
            IN  IF age_days <= freshness_days(r) THEN
                    [ score_fresh |-> QInt(100),
                      hard_fail_fresh |-> FALSE,
                      freshness_msg |-> NoMsg,
                      fresh_issue_idx |-> {} ]
                ELSE
                    [ score_fresh |-> QMax(QInt(0), QSub(QInt(100), QMin(QInt(100), QInt(over)))),
                      hard_fail_fresh |-> TRUE,
                      freshness_msg |-> [ kind |-> "stale", col |-> "", max_day |-> max_ts(d, c),
                                          allowed |-> freshness_days(r), age |-> age_days ],
                      fresh_issue_idx |-> {} ]
    ELSE
        [ score_fresh |-> QInt(100),
          hard_fail_fresh |-> FALSE,
          freshness_msg |-> NoMsg,
          fresh_issue_idx |-> {} ]

(***************************************************************************)
(* The locals of run after section (5): everything the metrics computed.   *)
(***************************************************************************)
NoMeasure == [computed |-> FALSE]

Measured(d, r, order, nowDay) ==
    LET req == RequiredPart(d, r)
        pk == PkPart(d, r)
        fmt == FormatPart(d, r)
        fr == FreshPart(d, r, nowDay)
    IN  [ computed |-> TRUE,
          total_rows |-> RowCount(d),
          total_cells |-> total_cells(d),
          schema_missing |-> order,
          score_schema |-> IF order = <<>> THEN QInt(100) ELSE QInt(0),
          hard_fail_schema |-> order # <<>>,
          missing_cells |-> missing_cells(d),
          score_val_comp |-> score_val_comp(d),
          req_missing_pct |-> req.req_missing_pct,
          req_missing_rows_idx |-> req.req_missing_rows_idx,
          score_req_comp |-> req.score_req_comp,
          hard_fail_required |-> req.hard_fail_required,
          pk_null_cnt |-> pk.pk_null_cnt,
          pk_dup_cnt |-> pk.pk_dup_cnt,
          pk_issue_idx |-> pk.pk_issue_idx,
          score_pk |-> pk.score_pk,
          hard_fail_pk |-> pk.hard_fail_pk,
          fmt_scores |-> fmt.fmt_scores,
          fmt_issue_idx |-> fmt.fmt_issue_idx,
          score_format |-> fmt.score_format,
          score_fresh |-> fr.score_fresh,
          hard_fail_fresh |-> fr.hard_fail_fresh,
          freshness_msg |-> fr.freshness_msg,
          fresh_issue_idx |-> fr.fresh_issue_idx ]

(***************************************************************************)
(* Preview, grade, reference score, notes.                                 *)
(***************************************************************************)
issue_idx(mm) ==
    mm.req_missing_rows_idx \cup mm.pk_issue_idx \cup mm.fmt_issue_idx \cup mm.fresh_issue_idx

RECURSIVE sorted(_)
sorted(S) ==
    IF S = {} THEN <<>>
    ELSE LET lo == CHOOSE x \in S : \A y \in S : x <= y
         IN  <<lo>> \o sorted(S \ {lo})

\* DataFrame.head(n) on a sequence of row labels
head(labels, n) == SubSeq(labels, 1, IF Len(labels) < n THEN Len(labels) ELSE n)

\* variant: the preview is always the head of the frame
PreviewLabelsAlwaysHead(d, idx) == head([k \in 1..RowCount(d) |-> k - 1], PREVIEW_ROWS)

\* variant: the rows of the union are not truncated
PreviewLabelsUntruncated(d, idx) ==
    IF idx # {} THEN sorted(idx)
    ELSE head([k \in 1..RowCount(d) |-> k - 1], PREVIEW_ROWS)

PreviewLabels(d, idx) ==
    IF idx # {} THEN head(sorted(idx), PREVIEW_ROWS)
    ELSE head([k \in 1..RowCount(d) |-> k - 1], PREVIEW_ROWS)

PreviewFrame(d, labels) ==
    [labels |-> labels, rows |-> [k \in 1..Len(labels) |-> d.rows[labels[k] + 1]]]

METRICS_LABELS ==
    << "schema conformity", "value completeness", "required completeness",
       "pk integrity", "format validity", "freshness", "reserved" >>

metrics_scores(mm) ==
    << mm.score_schema, mm.score_val_comp, mm.score_req_comp, mm.score_pk,
       mm.score_format, mm.score_fresh, QInt(100) >>

\* variant: the freshness flag is left out of the disjunction
HardFailWithoutFreshness(mm) ==
    mm.hard_fail_schema \/ mm.hard_fail_required \/ mm.hard_fail_pk

HardFail(mm) ==
    mm.hard_fail_schema \/ mm.hard_fail_required \/ mm.hard_fail_pk \/ mm.hard_fail_fresh

\* variant: only the format score is looked at
ConditionalFormatOnly(hard_fail, mm) ==
    ~hard_fail /\ QLt(mm.score_format, QInt(ADVISORY_FLOOR))

\* variant: the averaged reference score takes part in the decision
ConditionalOnReference(hard_fail, mm) ==
    /\ ~hard_fail
    /\ \/ QLt(mm.score_format, QInt(ADVISORY_FLOOR))
       \/ QLt(mm.score_val_comp, QInt(ADVISORY_FLOOR))
       \/ QLt(QMean(metrics_scores(mm)), QInt(100))

Conditional(hard_fail, mm) ==
    /\ ~hard_fail
    /\ \/ QLt(mm.score_format, QInt(ADVISORY_FLOOR))
       \/ QLt(mm.score_val_comp, QInt(ADVISORY_FLOOR))

GradeOf(hard_fail, conditional) ==
    IF hard_fail THEN "FAIL"
    ELSE IF conditional THEN "CONDITIONAL PASS"
    ELSE "PASS"

total_score(mm) == QMean(metrics_scores(mm))

NoNote == [tag |-> "", names |-> <<>>, pct |-> 0, thr |-> 0, col |-> "", nulls |-> 0,
           dups |-> 0, msg |-> NoMsg]

Notes(r, mm) ==
    (IF mm.schema_missing # <<>>
     THEN <<[NoNote EXCEPT !.tag = "schema missing", !.names = mm.schema_missing]>> ELSE <<>>)
    \o
    (IF r.required # <<>>
     THEN <<[NoNote EXCEPT !.tag = "required missing rate", !.pct = Round2(mm.req_missing_pct),
                            !.thr = r.required_missing_threshold_pct]>> ELSE <<>>)
    \o
    (IF Truthy(pk_col(r))
     THEN <<[NoNote EXCEPT !.tag = "pk", !.col = pk_col(r), !.nulls = mm.pk_null_cnt,
                            !.dups = mm.pk_dup_cnt]>>
     ELSE <<[NoNote EXCEPT !.tag = "pk unset"]>>)
    \o
    (IF mm.freshness_msg # NoMsg
     THEN <<[NoNote EXCEPT !.tag = "freshness", !.msg = mm.freshness_msg]>> ELSE <<>>)

NoJudged == [computed |-> FALSE]

Judged(d, r, mm) ==
    LET hard_fail == HardFail(mm)
        conditional == Conditional(hard_fail, mm)
    IN  [ computed |-> TRUE,
          issue_idx |-> issue_idx(mm),
          preview |-> PreviewFrame(d, PreviewLabels(d, issue_idx(mm))),
          metrics_scores |-> metrics_scores(mm),
          hard_fail |-> hard_fail,
          conditional |-> conditional,
          grade |-> GradeOf(hard_fail, conditional),
          total_score |-> total_score(mm),
          notes |-> Notes(r, mm) ]

NoResult == [grade |-> "", score |-> 0, metrics_labels |-> <<>>, metrics_scores |-> <<>>,
             row_count |-> 0, preview |-> [labels |-> <<>>, rows |-> <<>>], notes |-> <<>>]

Result(mm, j) ==
    [ grade |-> j.grade,
      score |-> Round2(j.total_score),
      metrics_labels |-> METRICS_LABELS,
      metrics_scores |-> j.metrics_scores,
      row_count |-> mm.total_rows,
      preview |-> j.preview,
      notes |-> j.notes ]

(***************************************************************************)
(* Signals.  Messages are the source's, in English.                        *)
(***************************************************************************)
MSG_UNRECOGNISED == <<"file format not recognised", "">>

MSG_NO_DATA == <<"no data", "">>

MSG_ANALYSIS(cause) == <<"error during analysis:", cause>>

ErrorSignal(msg) == [sig |-> "error", msg |-> msg, res |-> NoResult]

FinishedSignal(res) == [sig |-> "finished", msg |-> <<"", "">>, res |-> res]

(***************************************************************************)
(* Explored inputs: files, tables, rule documents, clock readings.         *)
(***************************************************************************)
ENCODINGS == <<"utf-8", "utf-8-sig", "cp949", "euc-kr", "utf-16", "latin-1">>

TXT_PADDED_DASH == <<" ", "-", " ">>

TXT_MIXED_CASE == <<"N", "a">>

TXT_EMAIL == <<"a", "@", "b", ".", "c">>

TXT_PHONE == <<"0", "2", "-", "1", "2", "3", "-", "4", "5", "6", "7">>

TXT_DATE == <<"2", "0", "2", "4", "-", "0", "1", "-", "1", "0">>

TextCells ==
    { NaN, Txt(TXT_PADDED_DASH), Txt(TXT_MIXED_CASE), Txt(TXT_EMAIL), Txt(TXT_PHONE),
      Txt(TXT_DATE) }

NumCells == { NaN, Num(5) }

TableRows == { <<a, b>> : a \in NumCells, b \in TextCells }

Tables(n) ==
    { [cols |-> <<"n", "val">>, dtype |-> <<"float64", "object">>, rows |-> rs] :
        rs \in UNION { [1..k -> TableRows] : k \in 0..n } }

ProbeTable ==
    [cols |-> <<"n", "val">>, dtype |-> <<"float64", "object">>,
     rows |-> << <<Num(5), Txt(TXT_EMAIL)>> >>]

\* a file whose bytes decode under ENCODINGS[k] and every later encoding only
ReadableFrom(k) == { ENCODINGS[j] : j \in k..Len(ENCODINGS) }

FilesOver(tables) ==
    { [csv |-> TRUE, readable |-> ReadableFrom(1), table |-> t] : t \in tables }
    \cup { [csv |-> TRUE, readable |-> ReadableFrom(k), table |-> ProbeTable] :
            k \in 2..(Len(ENCODINGS) + 1) }
    \cup { [csv |-> FALSE, readable |-> x, table |-> ProbeTable] : x \in {{"excel"}, {}} }

Files == FilesOver(Tables(MaxRows))

FilesPair == FilesOver(Tables(MaxRowsPair))

RequiredChoices ==
    { [required |-> <<>>, required_missing_threshold_pct |-> 0],
      [required |-> <<"val">>, required_missing_threshold_pct |-> 0],
      [required |-> <<"val">>, required_missing_threshold_pct |-> 50],
      [required |-> <<"gone">>, required_missing_threshold_pct |-> 0] }

TimestampChoices ==
    { [timestamp_column |-> None, freshness_days |-> 0],
      [timestamp_column |-> "val", freshness_days |-> 30],
      [timestamp_column |-> "updated", freshness_days |-> 30] }

FormatChoices == [email : {None, "val"}, phone : {None, "val"}]

RulesOver(reqs, fmts) ==
    { [ pk |-> p,
        required |-> q.required,
        required_missing_threshold_pct |-> q.required_missing_threshold_pct,
        timestamp_column |-> t.timestamp_column,
        freshness_days |-> t.freshness_days,
        formats |-> f ] :
        p \in {<<>>, <<"val">>, <<"uid">>}, q \in reqs, t \in TimestampChoices, f \in fmts }

Rules == RulesOver(RequiredChoices, FormatChoices)

\* rule documents of the two-run specification: no required columns, no phone format
RulesPair ==
    RulesOver({ q \in RequiredChoices : q.required = <<>> },
              { f \in FormatChoices : f.phone = None })

\* pd.Timestamp.now(), as a day number: 30 and 45 days after TXT_DATE
Nows == { DaysFromCivil(2024, 2, 9), DaysFromCivil(2024, 2, 24) }

\* Inputs of the freshness specification: a timestamp column holding absent
\* cells, text that is no date, and three dates (45/30, 30/15 and -6/-21 days
\* before the two clock readings); rule documents that differ in the
\* timestamp column and in freshness_days only.
TXT_DATE_LATE == <<"2", "0", "2", "4", "-", "0", "1", "-", "2", "5">>

TXT_DATE_AHEAD == <<"2", "0", "2", "4", "-", "0", "3", "-", "0", "1">>

TextCellsFresh ==
    { NaN, Txt(TXT_MIXED_CASE), Txt(TXT_DATE), Txt(TXT_DATE_LATE), Txt(TXT_DATE_AHEAD) }

TablesFresh(n) ==
    { [cols |-> <<"n", "val">>, dtype |-> <<"float64", "object">>, rows |-> rs] :
        rs \in UNION { [1..k -> { <<Num(5), b>> : b \in TextCellsFresh }] : k \in 0..n } }

FilesFresh == FilesOver(TablesFresh(MaxRowsFresh))

TimestampChoicesFresh ==
    { [timestamp_column |-> None, freshness_days |-> 0],
      [timestamp_column |-> None, freshness_days |-> 30],
      [timestamp_column |-> "val", freshness_days |-> 0],
      [timestamp_column |-> "val", freshness_days |-> 10],
      [timestamp_column |-> "val", freshness_days |-> 30],
      [timestamp_column |-> "updated", freshness_days |-> 30] }

RulesFresh ==
    { [ pk |-> <<>>,
        required |-> <<>>,
        required_missing_threshold_pct |-> 0,
        timestamp_column |-> t.timestamp_column,
        freshness_days |-> t.freshness_days,
        formats |-> [email |-> None, phone |-> None] ] : t \in TimestampChoicesFresh }

\* Inputs of the preview specification: tables of 1, 2 and about PREVIEW_ROWS
\* rows in which the rows flawed by an absent cell or by a text that is no
\* e-mail address, no date and a repeated key are placed by shape; rule
\* documents that switch on one metric each, none, or all of them.
RowCountsPreview == {1, 2} \cup ((PREVIEW_ROWS - 1)..(PREVIEW_ROWS + MaxRowsOverPreview))

PreviewShapes == {"clean", "all", "odd", "last", "rest"}

\* whether row k (from 1) of an n-row table of the shape is flawed
Flawed(shape, n, k) ==
    CASE shape = "clean" -> FALSE
      [] shape = "all" -> TRUE
      [] shape = "odd" -> k % 2 = 0
      [] shape = "last" -> k = n
      [] shape = "rest" -> k > 1

TablesPreview ==
    { [ cols |-> <<"n", "val">>, dtype |-> <<"float64", "object">>,
        rows |-> [ k \in 1..n |->
                    <<Num(5), IF Flawed(shape, n, k) THEN bad ELSE Txt(TXT_EMAIL)>> ] ] :
        n \in RowCountsPreview, shape \in PreviewShapes, bad \in {NaN, Txt(TXT_MIXED_CASE)} }

FilesPreview == FilesOver(TablesPreview)

RulesPreview ==
    { [ pk |-> p,
        required |-> q,
        required_missing_threshold_pct |-> 0,
        timestamp_column |-> t,
        freshness_days |-> IF t = None THEN 0 ELSE 30,
        formats |-> [email |-> e, phone |-> None] ] :
        p \in {<<>>, <<"val">>}, q \in {<<>>, <<"val">>}, t \in {None, "val"},
        e \in {None, "val"} }

(***************************************************************************)
(* The state machine of one AnalysisWorker.run.                            *)
(***************************************************************************)
NoPrev == [ran |-> FALSE]

Fresh(f, r) ==
    /\ file = f
    /\ rules = r
    /\ pc = "start"
    /\ attempts = <<>>
    /\ df = NoDf
    /\ m = NoMeasure
    /\ now = 0
    /\ judged = NoJudged
    /\ emitted = <<>>

Init == \E f \in Files : \E r \in Rules : Fresh(f, r) /\ prev = NoPrev

InitPair == \E f \in FilesPair : \E r \in RulesPair : Fresh(f, r) /\ prev = NoPrev

InitFresh == \E f \in FilesFresh : \E r \in RulesFresh : Fresh(f, r) /\ prev = NoPrev

InitPreview == \E f \in FilesPreview : \E r \in RulesPreview : Fresh(f, r) /\ prev = NoPrev

\* the except clause of run: one error signal, then the thread ends
Raise(cause) ==
    /\ emitted' = Append(emitted, ErrorSignal(MSG_ANALYSIS(cause)))
    /\ pc' = "done"

\* index of the first encoding under which read_csv succeeds, 0 when none does
FirstReadable(f) ==
    IF \E k \in 1..Len(ENCODINGS) : ENCODINGS[k] \in f.readable
    THEN CHOOSE k \in 1..Len(ENCODINGS) :
            /\ ENCODINGS[k] \in f.readable
            /\ \A j \in 1..(k - 1) : ENCODINGS[j] \notin f.readable
    ELSE 0

StrictAttempts(n) == [k \in 1..n |-> [encoding |-> ENCODINGS[k], errors |-> "strict"]]

\* lines 252-268: the load
Load ==
    /\ pc = "start"
    /\ IF file.csv THEN
           LET k == FirstReadable(file) IN
           IF k # 0 THEN
               /\ attempts' = StrictAttempts(k)
               /\ df' = file.table
               /\ pc' = "loaded"
               /\ UNCHANGED emitted
           ELSE
               \* read_csv(..., errors='ignore'): read_csv takes no such argument
               /\ attempts' = Append(StrictAttempts(Len(ENCODINGS)),
                                     [encoding |-> "utf-8", errors |-> "ignore"])
               /\ Raise("TypeError: read_csv() got an unexpected keyword argument 'errors'")
               /\ UNCHANGED df
       ELSE
           /\ attempts' = <<[encoding |-> "excel", errors |-> "strict"]>>
           /\ IF "excel" \in file.readable
              THEN df' = file.table /\ pc' = "loaded" /\ UNCHANGED emitted
              ELSE Raise("read_excel failed") /\ UNCHANGED df
    /\ UNCHANGED <<file, rules, m, now, judged, prev>>

\* variant: the return after the "no data" error signal is missing
NormalizeWithoutReturn ==
    /\ pc = "loaded"
    /\ emitted' = IF RowCount(df) = 0 THEN Append(emitted, ErrorSignal(MSG_NO_DATA)) ELSE emitted
    /\ df' = normalize_missing(df)
    /\ pc' = "normalized"
    /\ UNCHANGED <<file, rules, attempts, m, now, judged, prev>>

\* lines 270-281: the two guards and normalize_missing
Normalize ==
    /\ pc = "loaded"
    /\ IF df = NoDf THEN
           /\ emitted' = Append(emitted, ErrorSignal(MSG_UNRECOGNISED))
           /\ pc' = "done"
           /\ UNCHANGED df
       ELSE IF RowCount(df) = 0 THEN
           /\ emitted' = Append(emitted, ErrorSignal(MSG_NO_DATA))
           /\ pc' = "done"
           /\ UNCHANGED df
       ELSE
           /\ df' = normalize_missing(df)
           /\ pc' = "normalized"
           /\ UNCHANGED emitted
    /\ UNCHANGED <<file, rules, attempts, m, now, judged, prev>>

\* lines 283-414: rule preparation, schema check and the metrics
Measure ==
    /\ pc = "normalized"
    /\ IF RequiredKeyError(df, rules) THEN
           /\ Raise("KeyError: required column not in index")
           /\ UNCHANGED <<m, now>>
       ELSE
           \E order \in Orderings(SchemaMissingSet(df, rules)) : \E n \in Nows :
               LET nowDay == IF ReadsClock(df, rules) THEN n ELSE 0 IN
               /\ m' = Measured(df, rules, order, nowDay)
               /\ now' = nowDay
               /\ pc' = "measured"
               /\ UNCHANGED emitted
    /\ UNCHANGED <<file, rules, attempts, df, judged, prev>>

\* lines 416-479: preview, grade, reference score, notes
Judge ==
    /\ pc = "measured"
    /\ judged' = Judged(df, rules, m)
    /\ pc' = "judged"
    /\ UNCHANGED <<file, rules, attempts, df, m, now, emitted, prev>>

\* lines 481-491: the result signal
Emit ==
    /\ pc = "judged"
    /\ emitted' = Append(emitted, FinishedSignal(Result(m, judged)))
    /\ pc' = "done"
    /\ UNCHANGED <<file, rules, attempts, df, m, now, judged, prev>>

Next == Load \/ Normalize \/ Measure \/ Judge \/ Emit

Spec == Init /\ [][Next]_vars

\* A later evaluation of the same file by a new worker (DQApp.load_file, in
\* this launch of the program or another), with the rule document the dialog
\* returns.  prev records the ended run for comparison; the workers share nothing.
Rerun ==
    /\ pc = "done"
    /\ prev' = [ran |-> TRUE, rules |-> rules, now |-> now, m |-> m, emitted |-> emitted]
    /\ \E r \in RulesPair : rules' = r
    /\ pc' = "start"
    /\ attempts' = <<>>
    /\ df' = NoDf
    /\ m' = NoMeasure
    /\ now' = 0
    /\ judged' = NoJudged
    /\ emitted' = <<>>
    /\ UNCHANGED file

NextPair == Next \/ Rerun

SpecPair == InitPair /\ [][NextPair]_vars

\* one run over the inputs of the freshness specification
SpecFresh == InitFresh /\ [][Next]_vars

\* one run over the inputs of the preview specification
SpecPreview == InitPreview /\ [][Next]_vars

(***************************************************************************)
(* Properties.                                                             *)
(***************************************************************************)
Finished == pc = "done" /\ Len(emitted) = 1 /\ emitted[1].sig = "finished"

AnyFlag(mm) ==
    mm.hard_fail_schema \/ mm.hard_fail_required \/ mm.hard_fail_pk \/ mm.hard_fail_fresh

\* C1: in every emitted result, if any of the four hard-fail flags (schema,
\* required completeness, primary key, freshness) is true the grade is FAIL,
\* whatever the metric scores and the reference score are.
C1_GradingMonotonicity ==
    \A k \in DOMAIN emitted :
        (emitted[k].sig = "finished" /\ AnyFlag(m)) => emitted[k].res.grade = "FAIL"

\* a FAIL result whose only flaw is staleness: every other score is 100
C1_Witness ==
    /\ Finished
    /\ m.hard_fail_fresh /\ ~m.hard_fail_schema /\ ~m.hard_fail_required /\ ~m.hard_fail_pk
    /\ \A k \in {1, 2, 3, 4, 5, 7} : emitted[1].res.metrics_scores[k] = QInt(100)
    /\ emitted[1].res.grade = "FAIL"

\* C2: once the file has loaded into a table with at least one row, the run
\* emits a result with a grade and never an error; with configured columns
\* missing from the table it still completes, with schema score 0,
\* hardFailSchema, grade FAIL and notes listing the missing names.
C2_SchemaMissingIsDataCondition ==
    (pc = "done" /\ df # NoDf /\ RowCount(df) >= 1) =>
        /\ Len(emitted) = 1
        /\ emitted[1].sig = "finished"
        /\ emitted[1].res.grade \in {"PASS", "CONDITIONAL PASS", "FAIL"}
        /\ SchemaMissingSet(df, rules) # {} =>
              /\ m.score_schema = QInt(0)
              /\ m.hard_fail_schema
              /\ emitted[1].res.grade = "FAIL"
              /\ \E k \in DOMAIN emitted[1].res.notes :
                    /\ emitted[1].res.notes[k].tag = "schema missing"
                    /\ Range(emitted[1].res.notes[k].names) = SchemaMissingSet(df, rules)

\* C3: with no hard-fail flag set the grade is CONDITIONAL PASS exactly when
\* the format score or the value-completeness score is below 95, and PASS
\* otherwise; the grade is always one of PASS, CONDITIONAL PASS, FAIL.
C3_ConditionalRule ==
    \A k \in DOMAIN emitted : emitted[k].sig = "finished" =>
        LET res == emitted[k].res
            low == \/ QLt(res.metrics_scores[5], QInt(95))
                   \/ QLt(res.metrics_scores[2], QInt(95))
        IN  /\ res.grade \in {"PASS", "CONDITIONAL PASS", "FAIL"}
            /\ ~AnyFlag(m) => (res.grade = "CONDITIONAL PASS" <=> low)
            /\ ~AnyFlag(m) => (res.grade = "PASS" <=> ~low)

\* a conditional pass owed to value completeness alone
C3_Witness ==
    /\ Finished
    /\ ~AnyFlag(m)
    /\ emitted[1].res.grade = "CONDITIONAL PASS"
    /\ emitted[1].res.metrics_scores[5] = QInt(100)
    /\ QLt(emitted[1].res.metrics_scores[2], QInt(95))

FlagsOf(mm) ==
    <<mm.hard_fail_schema, mm.hard_fail_required, mm.hard_fail_pk, mm.hard_fail_fresh>>

LowsOf(mm) ==
    <<QLt(mm.score_format, QInt(95)), QLt(mm.score_val_comp, QInt(95))>>

\* the previous evaluation and the current one agree on the four flags and on
\* which of the two advisory scores are below 95
AgreeOnGradeInputs ==
    /\ prev.ran
    /\ prev.m.computed
    /\ judged.computed
    /\ FlagsOf(prev.m) = FlagsOf(m)
    /\ LowsOf(prev.m) = LowsOf(m)

\* C4: the reference score is the unweighted mean of the seven metric scores
\* (the seventh the constant 100) and does not influence the grade: two
\* evaluations that agree on the four flags and on whether the format and
\* value-completeness scores are below 95 get the same grade, whatever their
\* other scores and reference scores are.
C4_ReferenceScoreAdvisory ==
    /\ judged.computed =>
          /\ Len(judged.metrics_scores) = 7
          /\ judged.metrics_scores[7] = QInt(100)
          /\ QMulInt(judged.total_score, 7) = QSum(judged.metrics_scores)
    /\ AgreeOnGradeInputs => judged.grade = prev.emitted[1].res.grade

\* two passing evaluations with different reference scores
C4_Witness ==
    /\ AgreeOnGradeInputs
    /\ judged.grade = "PASS"
    /\ prev.emitted[1].res.grade = "PASS"
    /\ prev.emitted[1].res.score # Round2(judged.total_score)
    /\ prev.emitted[1].res.metrics_scores[4] # judged.metrics_scores[4]

\* the valid fraction and the offending rows of one format column as the
\* claim states them: over the non-absent cells only
ClaimedFormatColumn(d, c, label) ==
    LET present == { i \in Index(d) : ~isnull(At(d, i, c)) }
        valid == { i \in present : Matches(label, AsTypeStr(At(d, i, c))) }
    IN  [ score |-> IF present # {} THEN Q(Cardinality(valid), Cardinality(present)) ELSE QInt(1),
          idx |-> present \ valid ]

ClaimedFormatBlocks(d, r) ==
    (IF FormatUsed(d, r.formats.email)
     THEN <<ClaimedFormatColumn(d, r.formats.email, "email")>> ELSE <<>>)
    \o
    (IF FormatUsed(d, r.formats.phone)
     THEN <<ClaimedFormatColumn(d, r.formats.phone, "phone")>> ELSE <<>>)

\* C5: format validity ignores absent values: an absent cell of a format
\* column counts neither in the numerator nor in the denominator and its row
\* is never offending; the score is 100 times the mean of the per-column
\* fractions, and 100 when no format column is configured or present.
C5_FormatIgnoresAbsent ==
    m.computed =>
        LET blocks == ClaimedFormatBlocks(df, rules) IN
        /\ m.fmt_issue_idx = UNION { blocks[k].idx : k \in 1..Len(blocks) }
        /\ m.score_format =
              IF blocks = <<>> THEN QInt(100)
              ELSE QMulInt(QMean([k \in 1..Len(blocks) |-> blocks[k].score]), 100)

OffendingUnion ==
    m.req_missing_rows_idx \cup m.pk_issue_idx \cup m.fmt_issue_idx \cup m.fresh_issue_idx

ClaimedSentinels ==
    { <<>>, <<" ">>, <<" ", " ">>, <<"n", "a", "n">>, <<"N", "a", "N">>,
      <<"N", "U", "L", "L">>, <<"n", "u", "l", "l">>, <<"N", "/", "A">>,
      <<"n", "/", "a">>, <<"N", "A">>, <<"n", "a">>, <<"-">>, <<"-", "-">> }

Normalized == pc \notin {"start", "loaded"} /\ df # NoDf

\* C7: after normalize_missing a cell of a text column is absent exactly when
\* its whitespace-trimmed original value is in the sentinel set (compared
\* case-sensitively; a cell pandas loaded as NaN stays absent), and the cells
\* of numeric columns are unchanged.
C7_NormalizationInvariant ==
    Normalized =>
        \A r \in 1..RowCount(df) : \A c \in 1..ColCount(df) :
            LET orig == file.table.rows[r][c] IN
            IF df.dtype[c] = "object"
            THEN /\ orig.k = "str" => (isnull(df.rows[r][c]) <=> Strip(orig.s) \in ClaimedSentinels)
                 /\ orig.k = "nan" => isnull(df.rows[r][c])
            ELSE df.rows[r][c] = orig

\* a padded sentinel became absent, a differently-cased token did not, and a
\* numeric NaN is still there
C7_Witness ==
    /\ pc = "normalized"
    /\ \E r \in 1..RowCount(df) :
          file.table.rows[r][2] = Txt(TXT_PADDED_DASH) /\ isnull(df.rows[r][2])
    /\ \E r \in 1..RowCount(df) :
          file.table.rows[r][2] = Txt(TXT_MIXED_CASE) /\ ~isnull(df.rows[r][2])
          /\ df.rows[r][1] = NaN

AbsentCells ==
    Cardinality({ rc \in (1..RowCount(df)) \X (1..ColCount(df)) : isnull(df.rows[rc[1]][rc[2]]) })

\* C8: for a table with at least one row the value-completeness score is
\* 100 * (1 - absentCells / (rowCount * columnCount)), lies in [0, 100], and
\* is 100 exactly when no cell of the normalized table is absent.
C8_CompletenessBound ==
    m.computed =>
        /\ m.score_val_comp.n * (RowCount(df) * ColCount(df))
              = 100 * (RowCount(df) * ColCount(df) - AbsentCells) * m.score_val_comp.d
        /\ QLe(QInt(0), m.score_val_comp)
        /\ QLe(m.score_val_comp, QInt(100))
        /\ (m.score_val_comp = QInt(100)) <=> (AbsentCells = 0)

\* some but not all cells are absent
C8_Witness ==
    /\ m.computed
    /\ AbsentCells > RowCount(df)
    /\ QLt(QInt(0), m.score_val_comp)
    /\ QLt(m.score_val_comp, QInt(100))

\* C9: two evaluations of the same file with the same rule set and the same
\* value of now emit identical outcomes (grade, reference score, metric
\* scores, row count, preview rows in order, notes text).
C9_Idempotence ==
    (prev.ran /\ pc = "done" /\ prev.rules = rules /\ prev.now = now) =>
        emitted = prev.emitted

LoadFailed == pc = "done" /\ df = NoDf

LoadedEmpty == pc = "done" /\ df # NoDf /\ RowCount(df) = 0

\* C10: a run emits exactly one outcome, a result or an error and never both;
\* an unreadable file or a table with zero rows ends in an error and no
\* result, with different messages for the two; a result is emitted only
\* after the seven metrics and the grade have been computed.
C10_OneOutcome ==
    /\ pc = "done" => Len(emitted) = 1
    /\ pc # "done" => emitted = <<>>
    /\ LoadFailed => (emitted[1].sig = "error" /\ emitted[1].msg # MSG_NO_DATA)
    /\ LoadedEmpty => (emitted[1].sig = "error" /\ emitted[1].msg = MSG_NO_DATA)
    /\ \A k \in DOMAIN emitted : emitted[k].sig = "finished" =>
          /\ m.computed
          /\ judged.computed
          /\ Len(emitted[k].res.metrics_scores) = 7
          /\ emitted[k].res.metrics_scores = metrics_scores(m)
          /\ emitted[k].res.grade = judged.grade

\* the readable file without rows
C10_Witness ==
    /\ LoadedEmpty
    /\ attempts # <<>>
    /\ emitted = <<ErrorSignal(MSG_NO_DATA)>>

\* the rule document {}: no primary key, no required columns, no timestamp
\* column, no formats
EmptyRules(r) ==
    /\ r.pk = <<>>
    /\ r.required = <<>>
    /\ ~Truthy(r.timestamp_column)
    /\ r.formats.email = None
    /\ r.formats.phone = None

\* C11: with the empty rule set every evaluation of a table with at least one
\* row emits a result with schema score 100, required-completeness score 100,
\* primary-key score 70 and no hard-fail flag; the grade is never FAIL and is
\* CONDITIONAL PASS exactly when the value-completeness or the format score
\* is below 95, PASS otherwise.
C11_EmptyRuleSet ==
    (EmptyRules(rules) /\ pc = "done" /\ df # NoDf /\ RowCount(df) >= 1) =>
        /\ Finished
        /\ emitted[1].res.metrics_scores[1] = QInt(100)
        /\ emitted[1].res.metrics_scores[3] = QInt(100)
        /\ emitted[1].res.metrics_scores[4] = QInt(70)
        /\ ~m.hard_fail_schema /\ ~m.hard_fail_required /\ ~m.hard_fail_pk /\ ~m.hard_fail_fresh
        /\ emitted[1].res.grade # "FAIL"
        /\ emitted[1].res.grade =
              IF \/ QLt(emitted[1].res.metrics_scores[2], QInt(95))
                 \/ QLt(emitted[1].res.metrics_scores[5], QInt(95))
              THEN "CONDITIONAL PASS" ELSE "PASS"

\* the empty rule set on a table with an absent cell: a conditional pass
C11_Witness ==
    /\ Finished
    /\ EmptyRules(rules)
    /\ emitted[1].res.metrics_scores[4] = QInt(70)
    /\ emitted[1].res.grade = "CONDITIONAL PASS"
    /\ missing_cells(df) > 0

\* the rows in which at least one required column is absent
RequiredAbsentRows ==
    { i \in Index(df) : \E c \in Range(rules.required) : isnull(At(df, i, c)) }

PkConfiguredAndPresent == Truthy(pk_col(rules)) /\ HasCol(df, pk_col(rules))

\* rows whose key is absent
PkAbsentRows == { i \in Index(df) : isnull(At(df, i, pk_col(rules))) }

\* rows whose non-absent key value occurs in two or more rows
PkRepeatedRows ==
    { i \in Index(df) :
        /\ ~isnull(At(df, i, pk_col(rules)))
        /\ Cardinality({ j \in Index(df) :
                            At(df, j, pk_col(rules)) = At(df, i, pk_col(rules)) }) >= 2 }

\* C13: in every evaluation that computes the metrics, with the primary key
\* configured and present pkNull is the number of rows with an absent key,
\* pkDup the number of rows whose non-absent key occurs in two or more rows
\* (every participant), badRows the size of the union of the two row sets,
\* the score max(0, 100 - 100 * badRows / rowCount), and hardFailPk holds
\* exactly when pkNull > 0 or pkDup > 0; with no primary key configured the
\* score is 70 and there is no hard fail.
C13_PrimaryKeyIntegrity ==
    m.computed =>
        /\ PkConfiguredAndPresent =>
              LET badRows == Cardinality(PkAbsentRows \cup PkRepeatedRows) IN
              /\ m.pk_null_cnt = Cardinality(PkAbsentRows)
              /\ m.pk_dup_cnt = Cardinality(PkRepeatedRows)
              /\ m.pk_issue_idx = PkAbsentRows \cup PkRepeatedRows
              /\ m.score_pk.n * RowCount(df)
                    = (IF badRows > RowCount(df) THEN 0 ELSE 100 * (RowCount(df) - badRows))
                      * m.score_pk.d
              /\ m.hard_fail_pk <=> (m.pk_null_cnt > 0 \/ m.pk_dup_cnt > 0)
        /\ ~Truthy(pk_col(rules)) =>
              /\ m.score_pk = QInt(70)
              /\ ~m.hard_fail_pk

\* two rows carry the same key: both are counted and the score is 0
C13_Witness ==
    /\ m.computed
    /\ PkConfiguredAndPresent
    /\ m.pk_null_cnt = 0
    /\ m.pk_dup_cnt = 2
    /\ m.score_pk = QInt(0)
    /\ m.hard_fail_pk

\* rows of the timestamp column that parse as a date
TimestampParsedRows ==
    { i \in Index(df) : to_datetime(At(df, i, rules.timestamp_column)).ok }

\* whole days between the clock reading and the newest parsed value
AgeDays ==
    LET days == { to_datetime(At(df, i, rules.timestamp_column)).day : i \in TimestampParsedRows }
    IN  now - (CHOOSE x \in days : \A y \in days : y <= x)

\* max(0, 100 - min(100, (age - allowed) * 5)) over the integers
ClaimedStaleScore(age, allowed) ==
    LET cut == IF (age - allowed) * 5 < 100 THEN (age - allowed) * 5 ELSE 100
    IN  IF 100 - cut > 0 THEN 100 - cut ELSE 0

\* C14: freshness is skipped (score 100, no hard fail, no offending rows)
\* unless a timestamp column is configured, is in the table and
\* freshnessDays > 0.  When it is checked: if no cell parses the score is 0,
\* hardFailFreshness holds and the offending rows are the rows that failed to
\* parse; otherwise, with ageDays the whole days from the newest parsed value
\* to now, ageDays <= freshnessDays gives score 100 and no hard fail, and
\* ageDays > freshnessDays gives score max(0, 100 - min(100, (ageDays -
\* freshnessDays) * 5)), hardFailFreshness, no offending rows and grade FAIL.
C14_Freshness ==
    m.computed =>
        IF ~(/\ Truthy(rules.timestamp_column)
             /\ HasCol(df, rules.timestamp_column)
             /\ rules.freshness_days > 0)
        THEN /\ m.score_fresh = QInt(100)
             /\ ~m.hard_fail_fresh
             /\ m.fresh_issue_idx = {}
        ELSE IF TimestampParsedRows = {}
        THEN /\ m.score_fresh = QInt(0)
             /\ m.hard_fail_fresh
             /\ m.fresh_issue_idx = Index(df) \ TimestampParsedRows
        ELSE IF AgeDays <= rules.freshness_days
        THEN /\ m.score_fresh = QInt(100)
             /\ ~m.hard_fail_fresh
        ELSE /\ m.score_fresh = QInt(ClaimedStaleScore(AgeDays, rules.freshness_days))
             /\ m.hard_fail_fresh
             /\ m.fresh_issue_idx = {}
             /\ judged.computed => judged.grade = "FAIL"

\* freshnessDays 30 and data 45 days old: score 25 and a FAIL result, although
\* one cell of the column did not parse
C14_Witness ==
    /\ Finished
    /\ rules.freshness_days = 30
    /\ HasCol(df, rules.timestamp_column)
    /\ TimestampParsedRows # {}
    /\ TimestampParsedRows # Index(df)
    /\ AgeDays = 45
    /\ m.score_fresh = QInt(25)
    /\ m.fresh_issue_idx = {}
    /\ emitted[1].res.grade = "FAIL"

\* the attempts as the claim orders them: every encoding strictly, then the
\* same encoding permitting invalid bytes, before the next encoding
ClaimedAttemptOrder ==
    [ k \in 1..(2 * Len(ENCODINGS)) |->
        [ encoding |-> ENCODINGS[(k + 1) \div 2],
          errors |-> IF k % 2 = 1 THEN "strict" ELSE "ignore" ] ]

\* C15: for a delimited-text file the attempts made so far follow the order
\* UTF-8, UTF-8 with BOM, CP949, EUC-KR, UTF-16, Latin-1 with, for each
\* encoding, the strict attempt first and the retry permitting invalid bytes
\* next; no attempt follows the one that succeeded; when every attempt has
\* failed the run ends with an error and no result.
C15_AttemptOrder ==
    file.csv =>
        /\ Len(attempts) <= Len(ClaimedAttemptOrder)
        /\ attempts = SubSeq(ClaimedAttemptOrder, 1, Len(attempts))
        /\ (df # NoDf) =>
              \A j \in 1..(Len(attempts) - 1) : attempts[j].encoding \notin file.readable
        /\ LoadFailed =>
              /\ attempts = ClaimedAttemptOrder
              /\ Len(emitted) = 1
              /\ emitted[1].sig = "error"

\* C16: if the union of the four offending-row sets is non-empty the preview
\* is exactly the rows of the union in ascending row-index order cut to the
\* first 50; if the union is empty the preview is the first 50 rows of the
\* table; so the preview never has more than 50 rows and is never empty for
\* a table with rows.
C16_PreviewSelection ==
    judged.computed =>
        LET labels == judged.preview.labels
            shown == { labels[k] : k \in DOMAIN labels }
            limit(n) == IF n < 50 THEN n ELSE 50
        IN  /\ OffendingUnion # {} =>
                  /\ Len(labels) = limit(Cardinality(OffendingUnion))
                  /\ shown \subseteq OffendingUnion
                  /\ \A k \in 1..(Len(labels) - 1) : labels[k] < labels[k + 1]
                  /\ \A x \in OffendingUnion \ shown : \A y \in shown : y < x
            /\ OffendingUnion = {} =>
                  labels = [k \in 1..limit(RowCount(df)) |-> k - 1]
            /\ \A k \in DOMAIN labels : judged.preview.rows[k] = df.rows[labels[k] + 1]
            /\ Len(judged.preview.rows) = Len(labels)
            /\ Len(labels) <= 50
            /\ RowCount(df) > 0 => Len(labels) > 0

\* more than 50 offending rows and a clean first row: the preview is the rows
\* labelled 1 to 50 and leaves later offending rows out
C16_Witness ==
    /\ judged.computed
    /\ Cardinality(OffendingUnion) > 50
    /\ 0 \notin OffendingUnion
    /\ Len(judged.preview.labels) = 50
    /\ judged.preview.labels[1] = 1
    /\ judged.preview.labels[50] = 50

====
